---- MODULE Spec2Model ----
(***************************************************************************)
(* A model of spotdl/parsers/query_parser.py: parse_query drives a list of *)
(* request strings through parse_request, which routes each request by     *)
(* substring tests to a collaborator call (song_gatherer,                  *)
(* metadata_provider, ytm_provider, provider_utils), and reconciles a      *)
(* YouTube Music playlist with Spotify metadata by the character-bag       *)
(* distance compute_diff.                                                  *)
(*                                                                         *)
(* Python values are modelled as follows.                                  *)
(*   str            a TLA+ string                                          *)
(*   list           a sequence                                             *)
(*   Optional[T]    a sequence of at most one T: None is <<>>,             *)
(*                  a present value v is <<v>>                             *)
(*   a call that may raise   a record [exc, value] with exc = "none" when   *)
(*                  the call returned value, [exc] when it raised exc      *)
(* List indices are 1-based here and 0-based in the source.                *)
(***************************************************************************)
EXTENDS FiniteSets, Integers, Sequences, TLC

VARIABLES
    query,       \* parse_query's argument: the list of request strings
    idx,         \* number of requests the for loop has consumed
    songs_list,  \* parse_query's accumulator
    songs,       \* the list parse_query returns
    pc,          \* "loop" | "returned" | "raised" | the compute_diff phases
    error,       \* the exception that left parse_query, [exc, origin]
    path,        \* per consumed request: the branch taken
    results,     \* per consumed request: what parse_request returned
    calls,       \* per consumed request: the collaborator calls made
    envs,        \* per consumed request: what the collaborators answered
    answers,     \* the answers the collaborators may give in this run
    a, b,        \* compute_diff's arguments (SpecDiff)
    diff         \* compute_diff's results for (a, b), (b, a), (a, a)

vars == <<query, idx, songs_list, songs, pc, error, path, results, calls, envs, answers,
          a, b, diff>>

--------------------------------------------------------------------------
(* Bounds *)

MaxQueries == 2   \* longest query list (Spec)
MaxBulk    == 3   \* longest list a bulk catalog fetch returns (SpecRequest)
MaxCands   == 3   \* longest YouTube Music playlist (SpecRequest)
MaxLen     == 3   \* longest compute_diff argument (SpecDiff)

--------------------------------------------------------------------------
(* Python built-ins *)

None == <<>>
Some(v) == <<v>>

\* sub in s
Contains(sub, s) ==
    \E i \in 1..(Len(s) - Len(sub) + 1) : SubSeq(s, i, i + Len(sub) - 1) = sub

\* s.endswith(suffix)
EndsWith(s, suffix) ==
    /\ Len(s) >= Len(suffix)
    /\ SubSeq(s, Len(s) - Len(suffix) + 1, Len(s)) = suffix

\* s.split(sep) for a one-character sep: the segments between the separators,
\* empty segments included
RECURSIVE SplitFrom(_, _, _, _)
SplitFrom(s, sep, start, i) ==
    IF i > Len(s) THEN <<SubSeq(s, start, Len(s))>>
    ELSE IF SubSeq(s, i, i) = sep
         THEN <<SubSeq(s, start, i - 1)>> \o SplitFrom(s, sep, i + 1, i + 1)
         ELSE SplitFrom(s, sep, start, i + 1)

Split(s, sep) == SplitFrom(s, sep, 1, 1)

\* the characters str.split() with no argument treats as separators, those
\* of str.isspace(): U+0009 to U+000D, U+001C to U+001F, U+0020, U+0085 and
\* U+00A0, written raw in the second line where TLA+ has no escape for them.
\* The Unicode spaces above U+00FF (U+1680, U+2000 to U+200A, U+2028, U+2029,
\* U+202F, U+205F, U+3000) are separators too and cannot be written in a
\* string of this module: its strings hold characters up to U+00FF only.
Whitespace ==
    {" ", "\t", "\n", "\r", "\f",
     "", "", "", "", "", "", " "}

\* "".join(s.split()): s without its whitespace
RECURSIVE JoinSplit(_)
JoinSplit(s) ==
    IF s = "" THEN ""
    ELSE LET c == SubSeq(s, 1, 1)
             rest == JoinSplit(SubSeq(s, 2, Len(s)))
         IN IF c \in Whitespace THEN rest ELSE c \o rest

Abs(n) == IF n < 0 THEN -n ELSE n

RECURSIVE SumOver(_, _)
SumOver(S, f) ==
    IF S = {} THEN 0
    ELSE LET k == CHOOSE x \in S : TRUE IN f[k] + SumOver(S \ {k}, f)

\* the defaultdict(int) built by "for c in s: count[c] += 1", read at key c
Count(s, c) == Cardinality({i \in 1..Len(s) : SubSeq(s, i, i) = c})

\* set(count): the keys the loop created
Keys(s) == {SubSeq(s, i, i) : i \in 1..Len(s)}

compute_diff_keys_of_a(x, y) ==
    LET sa == JoinSplit(x)
        sb == JoinSplit(y)
        ks == Keys(sa)
    IN SumOver(ks, [k \in ks |-> Abs(Count(sa, k) - Count(sb, k))])

compute_diff(x, y) ==
    LET sa == JoinSplit(x)
        sb == JoinSplit(y)
        ks == Keys(sa) \cup Keys(sb)
    IN SumOver(ks, [k \in ks |-> Abs(Count(sa, k) - Count(sb, k))])

--------------------------------------------------------------------------
(* Collaborator answers *)

Ret(v) == [exc |-> "none", value |-> v]
\* a call that raised has no value
Raise(e) == [exc |-> e]

\* exceptions a collaborator call may end with
CollabErrors == {"OSError", "RuntimeError"}

SeqsUpTo(S, n) == UNION {[1..k -> S] : k \in 0..n}

\* a SongObject: file_name is the key parse_query deduplicates on, song_name
\* the title the playlist matcher compares, youtube_link an Optional[str]
SongObject(file_name, song_name, youtube_link) ==
    [file_name |-> file_name, song_name |-> song_name, youtube_link |-> youtube_link]

\* the catalog's entities; the entity of file name "A" also comes out of the
\* track branches, with other links
Catalog ==
    { SongObject("A", "ab", Some("L1")),
      SongObject("B", "b c", Some("L2")) }

\* a bulk fetch returns SongObjects and None for already downloaded songs
BulkLists == SeqsUpTo({None} \cup {Some(s) : s \in Catalog}, MaxBulk)
BulkAnswers == {Ret(l) : l \in BulkLists} \cup {Raise(e) : e \in CollabErrors}

\* ytm_provider.get_metadata_for_playlist: a list of {"title", "videoId"}
\* "ab" is at distance 1 from each title; "b c" is nearest to " b"
YtmSongs ==
    { [title |-> "a", videoId |-> "v1"],
      [title |-> " b", videoId |-> "v2"],
      [title |-> "abb", videoId |-> "v3"] }
YtmAnswers ==
    {Ret(l) : l \in SeqsUpTo(YtmSongs, MaxCands)} \cup {Raise(e) : e \in CollabErrors}

\* metadata_provider.from_url: the track's name, and the file name
\* SongObject.create_file_name derives from the name and the artists
TrackMetas == { [song_name |-> "ab", file_name |-> "A"] }
FromUrlAnswers == {Ret(m) : m \in TrackMetas} \cup {Raise(e) : e \in CollabErrors}

LyricsAnswers == {Ret("lyrics")} \cup {Raise(e) : e \in CollabErrors}

\* song_gatherer.from_spotify_url: when the output file already exists the
\* gatherer hands back no entity, as the absent placeholder the bulk fetches
\* use or as the OSError parse_request's handler names; otherwise it returns
\* the entity, whose link is None when no audio was found, or fails
FromSpotifyUrlAnswers(materialized) ==
    IF materialized
    THEN {Ret(None), Raise("OSError")}
    ELSE {Ret(Some(SongObject("A", "ab", l))) : l \in {None, Some("L1")}}
         \cup {Raise(e) : e \in CollabErrors}

\* every answer within the bounds: the runs of one request
AllAnswers ==
    [ from_url |-> FromUrlAnswers,
      get_song_lyrics |-> LyricsAnswers,
      bulk |-> BulkAnswers,
      get_metadata_for_playlist |-> YtmAnswers ]

\* a few answers of each kind: the runs of several requests
FewAnswers ==
    [ from_url |-> {Ret([song_name |-> "ab", file_name |-> "A"]), Raise("OSError")},
      get_song_lyrics |-> {Ret("lyrics"), Raise("OSError")},
      bulk |-> { Ret(<<>>),
                 Ret(<<Some(SongObject("A", "ab", Some("L1"))),
                       Some(SongObject("B", "b c", Some("L2")))>>),
                 Ret(<<Some(SongObject("B", "b c", Some("L2"))), None,
                       Some(SongObject("A", "ab", Some("L1")))>>),
                 Raise("OSError") },
      get_metadata_for_playlist |->
          { Ret(<<>>),
            Ret(<<[title |-> "a", videoId |-> "v1"], [title |-> " b", videoId |-> "v2"]>>),
            Raise("OSError") } ]

\* what the collaborators answer during one parse_request call; a field is
\* read only if parse_request makes that call
DefaultEnv ==
    [ from_url |-> Ret([song_name |-> "ab", file_name |-> "A"]),
      is_file |-> FALSE,
      get_song_lyrics |-> Ret("lyrics"),
      from_album |-> Ret(<<>>),
      get_metadata_for_playlist |-> Ret(<<>>),
      materialized |-> FALSE,
      from_spotify_url |-> Ret(Some(SongObject("A", "ab", Some("L1")))),
      from_playlist |-> Ret(<<>>),
      from_artist |-> Ret(<<>>),
      from_saved_tracks |-> Ret(<<>>),
      from_search_term |-> Ret(<<>>) ]

--------------------------------------------------------------------------
(* get_youtube_meta_track *)

\* the outcome of a function of the module: the exception that left it
\* ("none" when it returned), whether a collaborator raised it, the value
\* returned and the collaborator calls made
Outcome(exc, origin, value, made) ==
    [exc |-> exc, origin |-> origin, value |-> value, calls |-> made]

get_youtube_meta_track_spotify_link(youtube_url, spotify_url, env) ==
    IF env.from_url.exc # "none"
    THEN Outcome(env.from_url.exc, "collaborator", None, <<"from_url">>)
    ELSE IF env.is_file
    THEN Outcome("none", "none", None, <<"from_url", "is_file">>)
    ELSE IF env.get_song_lyrics.exc # "none"
    THEN Outcome(env.get_song_lyrics.exc, "collaborator", None,
                 <<"from_url", "is_file", "get_song_lyrics">>)
    ELSE Outcome("none", "none",
                 Some(SongObject(env.from_url.value.file_name,
                                 env.from_url.value.song_name,
                                 Some(spotify_url))),
                 <<"from_url", "is_file", "get_song_lyrics">>)

get_youtube_meta_track(youtube_url, spotify_url, env) ==
    IF env.from_url.exc # "none"
    THEN Outcome(env.from_url.exc, "collaborator", None, <<"from_url">>)
    ELSE IF env.is_file
    THEN Outcome("none", "none", None, <<"from_url", "is_file">>)
    ELSE IF env.get_song_lyrics.exc # "none"
    THEN Outcome(env.get_song_lyrics.exc, "collaborator", None,
                 <<"from_url", "is_file", "get_song_lyrics">>)
    ELSE Outcome("none", "none",
                 Some(SongObject(env.from_url.value.file_name,
                                 env.from_url.value.song_name,
                                 Some(youtube_url))),
                 <<"from_url", "is_file", "get_song_lyrics">>)

--------------------------------------------------------------------------
(* get_youtube_meta_playlist *)

\* tuple order on (diff_score, idx): min() compares the scores first and the
\* indices next; the indices differ, so the titles are never compared
TupleLess(d1, i1, d2, i2) == d1 < d2 \/ (d1 = d2 /\ i1 < i2)

\* the idx of min(diff_scores)
best_idx_last(t, ytm_titles) ==
    CHOOSE i \in 1..Len(ytm_titles) :
        \A j \in 1..Len(ytm_titles) :
            j # i => TupleLess(compute_diff(t, ytm_titles[i]), j,
                               compute_diff(t, ytm_titles[j]), i)

best_idx(t, ytm_titles) ==
    CHOOSE i \in 1..Len(ytm_titles) :
        \A j \in 1..Len(ytm_titles) :
            j # i => TupleLess(compute_diff(t, ytm_titles[i]), i,
                               compute_diff(t, ytm_titles[j]), j)

YoutubeWatch == "https://www.youtube.com/watch?v="

\* the for loop over song_list: song.song_name on a None entry raises
\* AttributeError and ends the loop
match_songs(song_list, ytm_metadata, made) ==
    LET ytm_titles == [i \in 1..Len(ytm_metadata) |-> ytm_metadata[i].title] IN
    IF \E k \in 1..Len(song_list) : song_list[k] = None
    THEN Outcome("AttributeError", "internal", None, made)
    ELSE Outcome("none", "none",
                 [k \in 1..Len(song_list) |->
                     LET song == song_list[k][1]
                         i == best_idx(song.song_name, ytm_titles)
                     IN Some([song EXCEPT !.youtube_link =
                                 Some(YoutubeWatch \o ytm_metadata[i].videoId)])],
                 made)

\* without the "if not ytm_titles" return: min() of an empty list raises
\* ValueError in the first iteration
get_youtube_meta_playlist_unguarded(youtube_url, spotify_url, env) ==
    IF env.from_album.exc # "none"
    THEN Outcome(env.from_album.exc, "collaborator", None, <<"from_album">>)
    ELSE IF env.get_metadata_for_playlist.exc # "none"
    THEN Outcome(env.get_metadata_for_playlist.exc, "collaborator", None,
                 <<"from_album", "get_metadata_for_playlist">>)
    ELSE IF env.get_metadata_for_playlist.value = <<>>
    THEN IF env.from_album.value = <<>>
         THEN Outcome("none", "none", <<>>, <<"from_album", "get_metadata_for_playlist">>)
         ELSE IF env.from_album.value[1] = None
         THEN Outcome("AttributeError", "internal", None,
                      <<"from_album", "get_metadata_for_playlist">>)
         ELSE Outcome("ValueError", "internal", None,
                      <<"from_album", "get_metadata_for_playlist">>)
    ELSE match_songs(env.from_album.value, env.get_metadata_for_playlist.value,
                     <<"from_album", "get_metadata_for_playlist">>)

get_youtube_meta_playlist(youtube_url, spotify_url, env) ==
    IF env.from_album.exc # "none"
    THEN Outcome(env.from_album.exc, "collaborator", None, <<"from_album">>)
    ELSE IF env.get_metadata_for_playlist.exc # "none"
    THEN Outcome(env.get_metadata_for_playlist.exc, "collaborator", None,
                 <<"from_album", "get_metadata_for_playlist">>)
    ELSE IF env.get_metadata_for_playlist.value = <<>>
    THEN Outcome("none", "none", <<>>, <<"from_album", "get_metadata_for_playlist">>)
    ELSE match_songs(env.from_album.value, env.get_metadata_for_playlist.value,
                     <<"from_album", "get_metadata_for_playlist">>)

--------------------------------------------------------------------------
(* parse_request *)

TrackingFileSuffix == ".spotdlTrackingFile"

\* the if/elif chain of parse_request with the single-track test moved first
Branch_track_first(request) ==
    IF Contains("open.spotify.com", request) /\ Contains("track", request)
    THEN "SingleTrack"
    ELSE IF /\ Contains("youtube.com/watch?v=", request)
            /\ Contains("open.spotify.com", request)
            /\ Contains("track", request)
            /\ Contains("|", request)
    THEN "PairedTrackURLs"
    ELSE IF /\ Contains("music.youtube.com/playlist?list=", request)
            /\ Contains("open.spotify.com", request)
            /\ Contains("|", request)
    THEN "PairedPlaylistURLs"
    ELSE IF Contains("open.spotify.com", request) /\ Contains("album", request)
    THEN "Album"
    ELSE IF Contains("open.spotify.com", request) /\ Contains("playlist", request)
    THEN "Playlist"
    ELSE IF Contains("open.spotify.com", request) /\ Contains("artist", request)
    THEN "Artist"
    ELSE IF request = "saved"
    THEN "SavedLibrary"
    ELSE "SearchTerm"

\* the if/elif chain of parse_request: the branch its conditions select
Branch(request) ==
    IF /\ Contains("youtube.com/watch?v=", request)
       /\ Contains("open.spotify.com", request)
       /\ Contains("track", request)
       /\ Contains("|", request)
    THEN "PairedTrackURLs"
    ELSE IF /\ Contains("music.youtube.com/playlist?list=", request)
            /\ Contains("open.spotify.com", request)
            /\ Contains("|", request)
    THEN "PairedPlaylistURLs"
    ELSE IF Contains("open.spotify.com", request) /\ Contains("track", request)
    THEN "SingleTrack"
    ELSE IF Contains("open.spotify.com", request) /\ Contains("album", request)
    THEN "Album"
    ELSE IF Contains("open.spotify.com", request) /\ Contains("playlist", request)
    THEN "Playlist"
    ELSE IF Contains("open.spotify.com", request) /\ Contains("artist", request)
    THEN "Artist"
    ELSE IF request = "saved"
    THEN "SavedLibrary"
    ELSE "SearchTerm"

\* the test before "Incorrect format used", with "or" read as "and"
incorrect_format_all(urls) ==
    /\ Len(urls) <= 1
    /\ ~Contains("youtube", urls[1])
    /\ ~Contains("spotify", urls[2])

\* len(urls) <= 1 or "youtube" not in urls[0] or "spotify" not in urls[1]
incorrect_format(urls) ==
    \/ Len(urls) <= 1
    \/ ~Contains("youtube", urls[1])
    \/ ~Contains("spotify", urls[2])

\* [song for song in song_list if song is not None]
FilterNone(song_list) == SelectSeq(song_list, LAMBDA song : song # None)

\* the exceptions the single-track try block handles
SingleTrackHandled == {"OSError", "ValueError", "LookupError"}

\* what parse_request did with a request: the exception that left it ("none"
\* when it returned), whether a collaborator raised it, the list returned,
\* the branch taken and the collaborator calls made
Done(branch, song_list, made) ==
    [exc |-> "none", origin |-> "none", song_list |-> FilterNone(song_list),
     path |-> branch, calls |-> made]

Failed(branch, exc, origin, made) ==
    [exc |-> exc, origin |-> origin, song_list |-> <<>>, path |-> branch, calls |-> made]

\* a bulk fetch called outside any try block
Bulk(branch, answer, name) ==
    IF answer.exc # "none"
    THEN Failed(branch, answer.exc, "collaborator", <<name>>)
    ELSE Done(branch, answer.value, <<name>>)

parse_request(request, env) ==
    LET branch == Branch(request)
        urls == Split(request, "|")
    IN
    CASE branch = "PairedTrackURLs" ->
           IF incorrect_format(urls)
           THEN Done(branch, <<>>, <<>>)
           ELSE LET o == get_youtube_meta_track(urls[1], urls[2], env) IN
                IF o.exc # "none"
                THEN Failed(branch, o.exc, o.origin, o.calls)
                ELSE Done(branch, FilterNone(<<o.value>>), o.calls)
      [] branch = "PairedPlaylistURLs" ->
           IF incorrect_format(urls)
           THEN Done(branch, <<>>, <<>>)
           ELSE LET o == get_youtube_meta_playlist(urls[1], urls[2], env) IN
                IF o.exc # "none"
                THEN Failed(branch, o.exc, o.origin, o.calls)
                ELSE Done(branch, FilterNone(o.value), o.calls)
      [] branch = "SingleTrack" ->
           IF env.from_spotify_url.exc # "none"
           THEN Failed(branch, env.from_spotify_url.exc, "collaborator",
                       <<"from_spotify_url">>)
           ELSE LET song == env.from_spotify_url.value IN
                IF song = None
                THEN \* song.youtube_link raises AttributeError inside the try
                     IF "AttributeError" \in SingleTrackHandled
                     THEN Done(branch, <<>>, <<"from_spotify_url">>)
                     ELSE Failed(branch, "AttributeError", "internal",
                                 <<"from_spotify_url">>)
                ELSE IF song[1].youtube_link # None
                THEN Done(branch, <<song>>, <<"from_spotify_url">>)
                ELSE Done(branch, <<>>, <<"from_spotify_url">>)
      [] branch = "Album" -> Bulk(branch, env.from_album, "from_album")
      [] branch = "Playlist" -> Bulk(branch, env.from_playlist, "from_playlist")
      [] branch = "Artist" -> Bulk(branch, env.from_artist, "from_artist")
      [] branch = "SavedLibrary" ->
           Bulk(branch, env.from_saved_tracks, "from_saved_tracks")
      [] OTHER ->
           \* except Exception: song_list keeps its initial []
           IF env.from_search_term.exc # "none"
           THEN Done(branch, <<>>, <<"from_search_term">>)
           ELSE Done(branch, env.from_search_term.value, <<"from_search_term">>)

--------------------------------------------------------------------------
(* parse_query *)

\* the "remove duplicates" loop, keeping the last entity of each file name
RECURSIVE remove_duplicates_keep_last(_)
remove_duplicates_keep_last(song_list) ==
    IF song_list = <<>> THEN <<>>
    ELSE LET song == Head(song_list)
             rest == Tail(song_list)
         IN IF \E k \in 1..Len(rest) : rest[k][1].file_name = song[1].file_name
            THEN remove_duplicates_keep_last(rest)
            ELSE <<song>> \o remove_duplicates_keep_last(rest)

\* the "remove duplicates" loop from position k on, seen_songs being the file
\* names added so far
RECURSIVE RemoveFrom(_, _, _)
RemoveFrom(song_list, k, seen_songs) ==
    IF k > Len(song_list) THEN <<>>
    ELSE LET song == song_list[k] IN
         IF song[1].file_name \notin seen_songs
         THEN <<song>> \o RemoveFrom(song_list, k + 1, seen_songs \cup {song[1].file_name})
         ELSE RemoveFrom(song_list, k + 1, seen_songs)

remove_duplicates(song_list) == RemoveFrom(song_list, 1, {})

--------------------------------------------------------------------------
(* Inputs *)

\* requests of every kind: tracking files, paired requests in the right and in
\* the wrong order, catalog URLs, the keyword "saved" and search terms
QueryPool ==
    { "x.spotdlTrackingFile",
      "open.spotify.com/track/2.spotdlTrackingFile",
      "youtube.com/watch?v=1|open.spotify.com/track/2",
      "open.spotify.com/track/2|youtube.com/watch?v=1",
      "youtube.com/watch?v=1 open.spotify.com/track/2|x",
      "music.youtube.com/playlist?list=1|open.spotify.com/album/2",
      "open.spotify.com/album/2|music.youtube.com/playlist?list=1",
      "open.spotify.com/track/2",
      "open.spotify.com/album/2",
      "open.spotify.com/playlist/2",
      "open.spotify.com/artist/2",
      "saved",
      "Saved",
      " saved",
      "song" }

\* the collaborator answers a request can meet: only the calls its branch
\* makes vary
TrackEnvs ==
    { [DefaultEnv EXCEPT !.from_url = u, !.is_file = f, !.get_song_lyrics = l] :
        u \in answers.from_url, f \in BOOLEAN, l \in answers.get_song_lyrics }

PlaylistEnvs ==
    { [DefaultEnv EXCEPT !.from_album = s, !.get_metadata_for_playlist = y] :
        s \in answers.bulk, y \in answers.get_metadata_for_playlist }

SingleEnvs ==
    UNION { { [DefaultEnv EXCEPT !.materialized = m, !.from_spotify_url = s] :
                s \in FromSpotifyUrlAnswers(m) } : m \in BOOLEAN }

EnvsFor(request) ==
    LET branch == Branch(request) IN
    CASE branch = "PairedTrackURLs" ->
           IF incorrect_format(Split(request, "|")) THEN {DefaultEnv} ELSE TrackEnvs
      [] branch = "PairedPlaylistURLs" ->
           IF incorrect_format(Split(request, "|")) THEN {DefaultEnv} ELSE PlaylistEnvs
      [] branch = "SingleTrack" -> SingleEnvs
      [] branch = "Album" -> {[DefaultEnv EXCEPT !.from_album = s] : s \in answers.bulk}
      [] branch = "Playlist" -> {[DefaultEnv EXCEPT !.from_playlist = s] : s \in answers.bulk}
      [] branch = "Artist" -> {[DefaultEnv EXCEPT !.from_artist = s] : s \in answers.bulk}
      [] branch = "SavedLibrary" ->
           {[DefaultEnv EXCEPT !.from_saved_tracks = s] : s \in answers.bulk}
      [] OTHER -> {[DefaultEnv EXCEPT !.from_search_term = s] : s \in answers.bulk}

NoError == [exc |-> "none", origin |-> "none"]

--------------------------------------------------------------------------
(* parse_query as a state machine: one step per iteration of the for loop *)

\* the state on entry to parse_query
Entry ==
    /\ idx = 0
    /\ songs_list = <<>>
    /\ songs = <<>>
    /\ pc = "loop"
    /\ error = NoError
    /\ path = <<>>
    /\ results = <<>>
    /\ calls = <<>>
    /\ envs = <<>>
    /\ a = ""
    /\ b = ""
    /\ diff = <<>>

\* one request, every answer within the bounds
InitRequest ==
    /\ query \in {<<request>> : request \in QueryPool}
    /\ answers = AllAnswers
    /\ Entry

\* several requests, a few answers of each kind
Init ==
    /\ query \in SeqsUpTo(QueryPool, MaxQueries)
    /\ answers = FewAnswers
    /\ Entry

InLoop == pc = "loop" /\ idx < Len(query)

\* if request.endswith(".spotdlTrackingFile"): continue
SkipRequest ==
    /\ InLoop
    /\ EndsWith(query[idx + 1], TrackingFileSuffix)
    /\ idx' = idx + 1
    /\ path' = Append(path, "Skip")
    /\ results' = Append(results, <<>>)
    /\ calls' = Append(calls, <<>>)
    /\ envs' = Append(envs, DefaultEnv)
    /\ UNCHANGED <<query, songs_list, songs, pc, error, answers, a, b, diff>>

\* songs_list.extend(parse_request(request, ...)); an exception leaving
\* parse_request leaves parse_query
Extend(env, r) ==
    /\ idx' = idx + 1
    /\ path' = Append(path, r.path)
    /\ results' = Append(results, r.song_list)
    /\ calls' = Append(calls, r.calls)
    /\ envs' = Append(envs, env)
    /\ IF r.exc # "none"
       THEN /\ pc' = "raised"
            /\ error' = [exc |-> r.exc, origin |-> r.origin]
            /\ UNCHANGED songs_list
       ELSE /\ songs_list' = songs_list \o r.song_list
            /\ UNCHANGED <<pc, error>>
    /\ UNCHANGED <<query, songs, answers, a, b, diff>>

Dispatch(branch) ==
    /\ ~EndsWith(query[idx + 1], TrackingFileSuffix)
    /\ Branch(query[idx + 1]) = branch
    /\ \E env \in EnvsFor(query[idx + 1]) :
          \E r \in {parse_request(query[idx + 1], env)} : Extend(env, r)

PairedTrackURLs == InLoop /\ Dispatch("PairedTrackURLs")
PairedPlaylistURLs == InLoop /\ Dispatch("PairedPlaylistURLs")
SingleTrack == InLoop /\ Dispatch("SingleTrack")
Album == InLoop /\ Dispatch("Album")
Playlist == InLoop /\ Dispatch("Playlist")
Artist == InLoop /\ Dispatch("Artist")
SavedLibrary == InLoop /\ Dispatch("SavedLibrary")
SearchTerm == InLoop /\ Dispatch("SearchTerm")

\* the loop is exhausted: remove duplicates and return songs
Return ==
    /\ pc = "loop"
    /\ idx = Len(query)
    /\ songs' = remove_duplicates(songs_list)
    /\ pc' = "returned"
    /\ UNCHANGED <<query, idx, songs_list, error, path, results, calls, envs, answers,
                   a, b, diff>>

Next ==
    \/ SkipRequest
    \/ PairedTrackURLs
    \/ PairedPlaylistURLs
    \/ SingleTrack
    \/ Album
    \/ Playlist
    \/ Artist
    \/ SavedLibrary
    \/ SearchTerm
    \/ Return

Spec == Init /\ [][Next]_vars

SpecRequest == InitRequest /\ [][Next]_vars

--------------------------------------------------------------------------
(* compute_diff on its own: every pair of short strings *)

Alphabet == {"a", "b", "c", " ", "\t"}

RECURSIVE Join(_)
Join(chars) == IF chars = <<>> THEN "" ELSE Head(chars) \o Join(Tail(chars))

\* the separators below U+0080: TLC keeps the strings of a state byte-wise,
\* so U+0085 and U+00A0 cannot be carried in a and b
AsciiWhitespace == Whitespace \ {"", " "}

\* every short string over the alphabet, and each separator below U+0080 alone
\* and between two letters
Strings ==
    {Join(chars) : chars \in SeqsUpTo(Alphabet, MaxLen)}
        \cup AsciiWhitespace
        \cup {"a" \o w \o "b" : w \in AsciiWhitespace}

InitDiff ==
    /\ pc = "diff_args"
    /\ a \in Strings
    /\ b \in Strings
    /\ diff = <<>>
    /\ query = <<>>
    /\ answers = FewAnswers
    /\ idx = 0
    /\ songs_list = <<>>
    /\ songs = <<>>
    /\ error = NoError
    /\ path = <<>>
    /\ results = <<>>
    /\ calls = <<>>
    /\ envs = <<>>

\* diff[1] = compute_diff(a, b), diff[2] = compute_diff(b, a),
\* diff[3] = compute_diff(a, a)
ComputeDiff ==
    /\ pc = "diff_args"
    /\ diff' = <<compute_diff(a, b), compute_diff(b, a), compute_diff(a, a)>>
    /\ pc' = "diff_done"
    /\ UNCHANGED <<query, idx, songs_list, songs, error, path, results, calls, envs,
                   answers, a, b>>

NextDiff == ComputeDiff

SpecDiff == InitDiff /\ [][NextDiff]_vars

--------------------------------------------------------------------------
(* Vocabulary of the properties *)

\* request k is the one whose exception ended parse_query
RaisedAt(k) == pc = "raised" /\ k = idx

\* a collaborator call made for request k raised
CallFailed(k) ==
    \E c \in 1..Len(calls[k]) :
        calls[k][c] # "is_file" /\ envs[k][calls[k][c]].exc # "none"

\* the per-request results, concatenated in input order
RECURSIVE Flatten(_)
Flatten(lists) == IF lists = <<>> THEN <<>> ELSE Head(lists) \o Flatten(Tail(lists))

FileNames(song_list) == [n \in 1..Len(song_list) |-> song_list[n][1].file_name]

\* the position of the first "|" of a request that has one
FirstPipe(request) ==
    CHOOSE p \in 1..Len(request) :
        /\ SubSeq(request, p, p) = "|"
        /\ \A q \in 1..(p - 1) : SubSeq(request, q, q) # "|"

\* segment 0: the text before the first "|"
Segment0(request) == SubSeq(request, 1, FirstPipe(request) - 1)

\* segment 1: the text between the first "|" and the next one, or the end
Segment1(request) ==
    LET rest == SubSeq(request, FirstPipe(request) + 1, Len(request)) IN
    IF Contains("|", rest) THEN SubSeq(rest, 1, FirstPipe(rest) - 1) ELSE rest

\* the classifier's rules, in priority order
RuleNames ==
    <<"Skip", "PairedTrackURLs", "PairedPlaylistURLs", "SingleTrack", "Album",
      "Playlist", "Artist", "SavedLibrary", "SearchTerm">>

RuleHolds(n, request) ==
    CASE n = 1 -> EndsWith(request, ".spotdlTrackingFile")
      [] n = 2 -> /\ Contains("youtube.com/watch?v=", request)
                  /\ Contains("open.spotify.com", request)
                  /\ Contains("track", request)
                  /\ Contains("|", request)
      [] n = 3 -> /\ Contains("music.youtube.com/playlist?list=", request)
                  /\ Contains("open.spotify.com", request)
                  /\ Contains("|", request)
      [] n = 4 -> Contains("open.spotify.com", request) /\ Contains("track", request)
      [] n = 5 -> Contains("open.spotify.com", request) /\ Contains("album", request)
      [] n = 6 -> Contains("open.spotify.com", request) /\ Contains("playlist", request)
      [] n = 7 -> Contains("open.spotify.com", request) /\ Contains("artist", request)
      [] n = 8 -> request = "saved"
      [] OTHER -> TRUE

FirstRule(request) ==
    RuleNames[CHOOSE n \in 1..9 :
                 RuleHolds(n, request) /\ \A m \in 1..(n - 1) : ~RuleHolds(m, request)]

\* a paired request in the right order: audio marker in segment 0 and catalog
\* marker in segment 1
WellFormedPair(request) ==
    Contains("youtube", Segment0(request)) /\ Contains("spotify", Segment1(request))

--------------------------------------------------------------------------
(* C1 *)

\* C1: whenever a collaborator call made for a request fails, parse_request
\* returns the empty list for that request and the failure does not leave
\* parse_request, so that parse_query goes on with the later requests.
C1_FailureIsolation ==
    \A k \in 1..idx : CallFailed(k) => results[k] = <<>> /\ ~RaisedAt(k)

--------------------------------------------------------------------------
(* C2 *)

\* C2: the list parse_query returns holds no two entities of one file name,
\* holds one entity for every file name of the concatenated per-request
\* results, that entity being the first of its file name in the
\* concatenation, and keeps the kept entities in the concatenation's order.
C2_StableDedup ==
    pc = "returned" =>
        LET all == Flatten(results)
            First(f) == CHOOSE k \in 1..Len(all) :
                            /\ all[k][1].file_name = f
                            /\ \A j \in 1..(k - 1) : all[j][1].file_name # f
        IN /\ songs_list = all
           /\ \A i, j \in 1..Len(songs) :
                  i # j => songs[i][1].file_name # songs[j][1].file_name
           /\ \A k \in 1..Len(all) :
                  \E i \in 1..Len(songs) : songs[i][1].file_name = all[k][1].file_name
           /\ \A i \in 1..Len(songs) :
                  /\ \E k \in 1..Len(all) : all[k][1].file_name = songs[i][1].file_name
                  /\ songs[i] = all[First(songs[i][1].file_name)]
           /\ \A i, j \in 1..Len(songs) :
                  i < j => First(songs[i][1].file_name) < First(songs[j][1].file_name)

\* file names A, B, A, B from two requests, the two entities named A differing:
\* the first A and the first B are returned
C2_Witness ==
    /\ pc = "returned"
    /\ FileNames(songs_list) = <<"A", "B", "A", "B">>
    /\ songs_list[1] # songs_list[3]
    /\ songs = <<songs_list[1], songs_list[2]>>

--------------------------------------------------------------------------
(* C3 *)

\* C3: every request takes the branch of the first rule, in the order Skip,
\* PairedTrackURLs, PairedPlaylistURLs, SingleTrack, Album, Playlist, Artist,
\* SavedLibrary, SearchTerm, whose substring test holds for it; a skipped
\* request makes no collaborator call; a request that fits the paired-track
\* and the single-track tests is a paired track; only the exact string
\* "saved" is the saved library.
C3_FirstMatchWins ==
    \A k \in 1..idx :
        /\ path[k] = FirstRule(query[k])
        /\ path[k] = "Skip" => calls[k] = <<>> /\ results[k] = <<>>
        /\ ~RuleHolds(1, query[k]) /\ RuleHolds(2, query[k]) /\ RuleHolds(4, query[k])
              => path[k] = "PairedTrackURLs"
        /\ path[k] = "SavedLibrary" <=> query[k] = "saved"
        /\ query[k] \in {"Saved", " saved"} => path[k] = "SearchTerm"

\* a request fitting the paired-track and the single-track tests went the
\* paired-track way, and "Saved" was searched for
C3_Witness ==
    /\ idx = 2
    /\ RuleHolds(2, query[1]) /\ RuleHolds(4, query[1])
    /\ query[2] = "Saved"
    /\ path = <<"PairedTrackURLs", "SearchTerm">>
    /\ calls[2] = <<"from_search_term">>

--------------------------------------------------------------------------
(* C4 *)

\* request k is a paired playlist request in the right order whose two
\* fetches returned
PlaylistFetched(k) ==
    /\ path[k] = "PairedPlaylistURLs"
    /\ WellFormedPair(query[k])
    /\ envs[k].from_album.exc = "none"
    /\ envs[k].get_metadata_for_playlist.exc = "none"

\* the lowest index among the candidates nearest to the title t
NearestFirst(t, candidates) ==
    LET dist(i) == compute_diff(t, candidates[i].title)
        least == CHOOSE d \in {dist(i) : i \in 1..Len(candidates)} :
                     \A i \in 1..Len(candidates) : d <= dist(i)
    IN CHOOSE i \in 1..Len(candidates) :
           dist(i) = least /\ \A j \in 1..(i - 1) : dist(j) # least

\* C4: when get_youtube_meta_playlist has a non-empty candidate list and
\* returns, every catalog entity comes back with its audio link built from the
\* videoId of the candidate whose title is nearest to the entity's song name
\* by compute_diff, the lowest index winning among equally near candidates;
\* each entity is matched on its own.
C4_ArgminLowestIndex ==
    \A k \in 1..idx :
        /\ PlaylistFetched(k)
        /\ envs[k].get_metadata_for_playlist.value # <<>>
        /\ ~RaisedAt(k)
        => LET entities == envs[k].from_album.value
               candidates == envs[k].get_metadata_for_playlist.value
           IN /\ Len(results[k]) = Len(entities)
              /\ \A n \in 1..Len(entities) :
                     LET i == NearestFirst(entities[n][1].song_name, candidates) IN
                     /\ results[k][n][1].youtube_link =
                            Some("https://www.youtube.com/watch?v=" \o candidates[i].videoId)
                     /\ results[k][n][1].file_name = entities[n][1].file_name
                     /\ results[k][n][1].song_name = entities[n][1].song_name

\* "ab" is equally near to all three candidates and takes the first of them;
\* "b c" is nearest to the third and takes it
C4_Witness ==
    \E k \in 1..idx :
        /\ PlaylistFetched(k)
        /\ ~RaisedAt(k)
        /\ envs[k].get_metadata_for_playlist.value =
               << [title |-> "abb", videoId |-> "v3"], [title |-> "a", videoId |-> "v1"],
                  [title |-> " b", videoId |-> "v2"] >>
        /\ Len(results[k]) = 2
        /\ results[k][1][1].song_name = "ab"
        /\ results[k][1][1].youtube_link = Some("https://www.youtube.com/watch?v=v3")
        /\ results[k][2][1].song_name = "b c"
        /\ results[k][2][1].youtube_link = Some("https://www.youtube.com/watch?v=v2")

--------------------------------------------------------------------------
(* C5 *)

\* C5: a paired playlist request in the right order whose candidate list is
\* empty contributes the empty list whatever the catalog returned, raises
\* nothing, and the loop goes on: the list parse_query returns has an entity
\* for every file name the other requests contributed.
C5_EmptyCandidates ==
    \A k \in 1..idx :
        /\ PlaylistFetched(k)
        /\ envs[k].get_metadata_for_playlist.value = <<>>
        => /\ results[k] = <<>>
           /\ ~RaisedAt(k)
           /\ pc = "returned" =>
                  \A j \in 1..idx : \A n \in 1..Len(results[j]) :
                      \E m \in 1..Len(songs) :
                          songs[m][1].file_name = results[j][n][1].file_name

\* an empty candidate list against three catalog entries, one of them absent,
\* followed by a request whose entities are returned
C5_Witness ==
    /\ pc = "returned"
    /\ idx = 2
    /\ PlaylistFetched(1)
    /\ envs[1].get_metadata_for_playlist.value = <<>>
    /\ Len(envs[1].from_album.value) = 3
    /\ envs[1].from_album.value[2] = None
    /\ results[1] = <<>>
    /\ Len(results[2]) = 2
    /\ songs = results[2]

--------------------------------------------------------------------------
(* C6 *)

\* the non-whitespace characters of s, in order
Visible(s) ==
    LET keep == {i \in 1..Len(s) : SubSeq(s, i, i) \notin Whitespace}
        nth(n) == CHOOSE i \in keep : Cardinality({j \in keep : j < i}) = n - 1
    IN [n \in 1..Cardinality(keep) |-> SubSeq(s, nth(n), nth(n))]

\* y rearranges x
Permutes(x, y) ==
    /\ Len(x) = Len(y)
    /\ \E p \in [1..Len(x) -> 1..Len(x)] :
           /\ \A i, j \in 1..Len(x) : i # j => p[i] # p[j]
           /\ \A i \in 1..Len(x) : y[p[i]] = x[i]

\* C6: compute_diff(a, b) = compute_diff(b, a); compute_diff(a, a) = 0; two
\* strings that differ only in whitespace are at distance 0; two strings whose
\* non-whitespace characters are rearrangements of each other are at
\* distance 0.  The last conjunct covers U+0085 and U+00A0: putting either
\* before a or after a leaves both distances unchanged.
C6_DiffLaws ==
    pc = "diff_done" =>
        /\ diff[1] = diff[2]
        /\ diff[3] = 0
        /\ Visible(a) = Visible(b) => diff[1] = 0
        /\ Permutes(Visible(a), Visible(b)) => diff[1] = 0
        /\ \A w \in Whitespace \ AsciiWhitespace :
               /\ compute_diff(w \o a, b) = diff[1]
               /\ compute_diff(b, a \o w) = diff[2]

\* "abc" against a rearrangement of it with a blank inside
C6_Witness ==
    /\ pc = "diff_done"
    /\ Visible(a) = <<"a", "b", "c">>
    /\ Visible(b) = <<"b", "c", "a">>
    /\ diff = <<0, 0, 0>>

--------------------------------------------------------------------------
(* C7 *)

\* request k is a paired track request in the right order whose metadata
\* fetch returned
TrackFetched(k) ==
    /\ path[k] = "PairedTrackURLs"
    /\ WellFormedPair(query[k])
    /\ envs[k].from_url.exc = "none"

\* C7 as stated, the lyrics lookup returning as well: such a request yields
\* exactly one entity, whose audio link is the text before the pipe.
C7_OneEntityAlways ==
    \A k \in 1..idx :
        TrackFetched(k) /\ ~CallFailed(k) =>
            /\ ~RaisedAt(k)
            /\ Len(results[k]) = 1
            /\ results[k][1][1].youtube_link = Some(Segment0(query[k]))

\* C7 as amended: such a request yields the empty list when the output file
\* already exists; otherwise, when the lyrics lookup returns, it yields
\* exactly one entity, whose audio link is the text before the pipe, and when
\* the lyrics lookup raises, that exception leaves parse_request.
C7_OneEntityUnlessDownloaded ==
    \A k \in 1..idx :
        TrackFetched(k) =>
            /\ envs[k].is_file => results[k] = <<>> /\ ~RaisedAt(k)
            /\ ~envs[k].is_file /\ envs[k].get_song_lyrics.exc = "none" =>
                   /\ ~RaisedAt(k)
                   /\ Len(results[k]) = 1
                   /\ results[k][1][1].youtube_link = Some(Segment0(query[k]))
            /\ ~envs[k].is_file /\ envs[k].get_song_lyrics.exc # "none" =>
                   /\ RaisedAt(k)
                   /\ error.exc = envs[k].get_song_lyrics.exc

\* the paired track request came back with the supplied YouTube URL
C7_Witness ==
    \E k \in 1..idx :
        /\ TrackFetched(k)
        /\ ~envs[k].is_file
        /\ query[k] = "youtube.com/watch?v=1|open.spotify.com/track/2"
        /\ Len(results[k]) = 1
        /\ results[k][1][1].youtube_link = Some("youtube.com/watch?v=1")

--------------------------------------------------------------------------
(* C8 *)

\* the request fits the paired-track or the paired-playlist rule and is not a
\* tracking file
PairedRule(request) ==
    /\ ~RuleHolds(1, request)
    /\ RuleHolds(2, request) \/ RuleHolds(3, request)

\* C8: a request that fits a paired rule but lacks the audio marker in
\* segment 0 or the catalog marker in segment 1 yields the empty list, makes
\* no collaborator call, takes no lower branch and raises nothing, so the
\* loop goes on with the next request.
C8_MalformedPairYieldsEmpty ==
    \A k \in 1..idx :
        PairedRule(query[k]) /\ ~WellFormedPair(query[k]) =>
            /\ results[k] = <<>>
            /\ calls[k] = <<>>
            /\ path[k] \in {"PairedTrackURLs", "PairedPlaylistURLs"}
            /\ ~RaisedAt(k)

\* a pair in the wrong order yields nothing and the next request's entities
\* are returned
C8_Witness ==
    /\ pc = "returned"
    /\ idx = 2
    /\ query[1] = "open.spotify.com/track/2|youtube.com/watch?v=1"
    /\ path[1] = "PairedTrackURLs"
    /\ results[1] = <<>>
    /\ calls[1] = <<>>
    /\ Len(results[2]) = 2
    /\ songs = results[2]

--------------------------------------------------------------------------
(* C9 *)

\* C9: a single track request yields the empty list, raising nothing, when
\* the fetched entity has no audio link and when the output file already
\* exists; it yields one entity only when the link is there and the file is
\* not.
C9_SingleTrackSkip ==
    \A k \in 1..idx :
        path[k] = "SingleTrack" =>
            /\ envs[k].materialized => results[k] = <<>> /\ ~RaisedAt(k)
            /\ /\ envs[k].from_spotify_url.exc = "none"
               /\ envs[k].from_spotify_url.value # None
               /\ envs[k].from_spotify_url.value[1].youtube_link = None
               => results[k] = <<>> /\ ~RaisedAt(k)
            /\ Len(results[k]) = 1 =>
                   /\ ~envs[k].materialized
                   /\ results[k][1][1].youtube_link # None

--------------------------------------------------------------------------
(* C10 *)

\* the list the bulk fetch of request k returned, if the request is a bulk
\* request all of whose fetches returned (a paired playlist request counts
\* when its candidate list is not empty)
BulkFetch(k) ==
    CASE path[k] = "Album" -> envs[k].from_album
      [] path[k] = "Playlist" -> envs[k].from_playlist
      [] path[k] = "Artist" -> envs[k].from_artist
      [] path[k] = "SavedLibrary" -> envs[k].from_saved_tracks
      [] path[k] = "SearchTerm" -> envs[k].from_search_term
      [] path[k] = "PairedPlaylistURLs" ->
           IF /\ PlaylistFetched(k)
              /\ envs[k].get_metadata_for_playlist.value # <<>>
           THEN envs[k].from_album
           ELSE [exc |-> "not fetched"]
      [] OTHER -> [exc |-> "not fetched"]

\* the present entries of a fetched list, in order
RECURSIVE Present(_)
Present(song_list) ==
    IF song_list = <<>> THEN <<>>
    ELSE IF Head(song_list) = <<>> THEN Present(Tail(song_list))
    ELSE <<Head(song_list)>> \o Present(Tail(song_list))

\* C10: on every branch, a bulk fetch that returns a list with absent
\* placeholders in it makes parse_request return, raising nothing, the
\* present entities in their order and no placeholder, so that the list
\* parse_query returns holds no placeholder.
C10_PlaceholdersFiltered ==
    /\ \A m \in 1..Len(songs) : songs[m] # None
    /\ \A k \in 1..idx :
           BulkFetch(k).exc = "none" =>
               /\ ~RaisedAt(k)
               /\ \A n \in 1..Len(results[k]) : results[k][n] # None
               /\ FileNames(results[k]) = FileNames(Present(BulkFetch(k).value))

====
